---- MODULE Spec2Model ----
(***************************************************************************)
(* Model of mm/mmu_context.c: use_mm() and unuse_mm(), the routines by     *)
(* which a kernel thread borrows and gives back a user address space.      *)
(*                                                                         *)
(* Vocabulary of the prose specification:                                  *)
(*   ExecutionContext  = a kernel thread (task_struct), here a context c   *)
(*   AddressSpace      = an mm_struct, here a space s                      *)
(*   attached          = tsk->mm          (variable tsk_mm)                *)
(*   retained          = tsk->active_mm   (variable tsk_active_mm)         *)
(*   reference count   = mm->mm_count     (variable mm_count)              *)
(*   Attach / Detach   = use_mm / unuse_mm                                 *)
(* Every C statement of the two functions is one step of the calling       *)
(* context, so the states between two statements are states of the model.  *)
(***************************************************************************)
EXTENDS Integers, Sequences, FiniteSets, TLC

NumCtx == 2
NumSpaces == 2

NULL == 0
Contexts == 1..NumCtx
Spaces == 1..NumSpaces
SpaceOrNull == Spaces \cup {NULL}

VARIABLES
  tsk_mm,          \* tsk->mm of each context: the attached space or NULL
  tsk_active_mm,   \* tsk->active_mm of each context: the retained space or NULL
  alloc_lock,      \* task_lock(tsk) is held
  pc,              \* the statement each context executes next
  arg,             \* the parameter mm of the call in progress (or last made)
  active_mm,       \* the local variable active_mm of use_mm
  mm_count,        \* mm->mm_count of each space
  freed,           \* the space was destroyed (__mmdrop ran)
  owner,           \* the callers outside the protocol still hold their reference
  rq_membarrier,   \* what membarrier_update_current_mm last published
  held,            \* history: references each context took and has not dropped
  call,            \* history: the function in progress (or last completed)
  entry_mm,        \* history: tsk->mm when the call was made
  entry_active,    \* history: tsk->active_mm when the call was made
  trace,           \* history: the events of the call, in program order
  pattern          \* history: progress through use(A), unuse(A), use(A)

vars == <<tsk_mm, tsk_active_mm, alloc_lock, pc, arg, active_mm, mm_count,
          freed, owner, rq_membarrier, held, call, entry_mm, entry_active,
          trace, pattern>>

taskv == <<tsk_mm, tsk_active_mm, alloc_lock, active_mm, rq_membarrier>>
countv == <<mm_count, freed, owner, held>>
histv == <<arg, call, entry_mm, entry_active, pattern>>

Ev(e, x, y) == [ev |-> e, a |-> x, b |-> y]

\* The events of a trace that are named e.
Events(t, e) == SelectSeq(t, LAMBDA r : r.ev = e)

Log(c, e, x, y) == trace' = [trace EXCEPT ![c] = Append(@, Ev(e, x, y))]

Goto(c, l) == pc' = [pc EXCEPT ![c] = l]

Borrowers(act, s) == {c \in Contexts : act[c] = s}

InFlight(s) == {c \in Contexts : pc[c] \notin {"idle", "oops"} /\ arg[c] = s}

(***************************************************************************)
(* The reference-counting primitive on mm_count.                           *)
(***************************************************************************)
mmgrab(cnt, s) == [cnt EXCEPT ![s] = @ + 1]

mmdrop(cnt, s) == [cnt EXCEPT ![s] = @ - 1]

\* atomic_dec_and_test: the decrement that reaches zero destroys the space.
mmdrop_frees(cnt, s) == cnt[s] - 1 = 0

(***************************************************************************)
(* A kernel thread starts with no mm of its own.  Its active_mm is either  *)
(* absent or a space borrowed for it with a counted reference.  Every      *)
(* space starts alive with the reference of its outside callers.           *)
(***************************************************************************)
Init ==
  /\ tsk_mm = [c \in Contexts |-> NULL]
  /\ tsk_active_mm \in [Contexts -> SpaceOrNull]
  /\ alloc_lock = [c \in Contexts |-> FALSE]
  /\ pc = [c \in Contexts |-> "idle"]
  /\ arg = [c \in Contexts |-> NULL]
  /\ active_mm = [c \in Contexts |-> NULL]
  /\ owner = [s \in Spaces |-> TRUE]
  /\ mm_count = [s \in Spaces |-> 1 + Cardinality(Borrowers(tsk_active_mm, s))]
  /\ freed = [s \in Spaces |-> FALSE]
  /\ rq_membarrier = [c \in Contexts |-> NULL]
  /\ held = [c \in Contexts |-> [s \in Spaces |-> IF tsk_active_mm[c] = s THEN 1 ELSE 0]]
  /\ call = [c \in Contexts |-> "none"]
  /\ entry_mm = [c \in Contexts |-> NULL]
  /\ entry_active = [c \in Contexts |-> NULL]
  /\ trace = [c \in Contexts |-> <<>>]
  /\ pattern = [c \in Contexts |-> <<0, NULL>>]

(***************************************************************************)
(* use_mm(mm)                                                              *)
(***************************************************************************)
\* The caller holds its own reference on mm for the duration of the call.
Call_use_mm(c, m) ==
  /\ pc[c] = "idle"
  /\ owner[m] /\ ~freed[m]
  /\ Goto(c, "u27")
  /\ arg' = [arg EXCEPT ![c] = m]
  /\ call' = [call EXCEPT ![c] = "use_mm"]
  /\ entry_mm' = [entry_mm EXCEPT ![c] = tsk_mm[c]]
  /\ entry_active' = [entry_active EXCEPT ![c] = tsk_active_mm[c]]
  /\ trace' = [trace EXCEPT ![c] = <<>>]
  /\ pattern' = [pattern EXCEPT ![c] = IF @ = <<2, m>> THEN <<3, m>> ELSE <<1, m>>]
  /\ UNCHANGED <<taskv, countv>>

\* Variant of line 27 that does not take the lock.
use_mm_lock_missing(c) ==
  /\ pc[c] = "u27"
  /\ Log(c, "task_lock", NULL, NULL)
  /\ Goto(c, "u28")
  /\ UNCHANGED <<taskv, countv, histv>>

\* line 27: task_lock(tsk)
use_mm_lock(c) ==
  /\ pc[c] = "u27"
  /\ ~alloc_lock[c]
  /\ alloc_lock' = [alloc_lock EXCEPT ![c] = TRUE]
  /\ Log(c, "task_lock", NULL, NULL)
  /\ Goto(c, "u28")
  /\ UNCHANGED <<tsk_mm, tsk_active_mm, active_mm, rq_membarrier, countv, histv>>

\* Variant of line 28 that takes prev from tsk->mm.
use_mm_read_attached(c) ==
  /\ pc[c] = "u28"
  /\ active_mm' = [active_mm EXCEPT ![c] = tsk_mm[c]]
  /\ Goto(c, "u29")
  /\ UNCHANGED <<tsk_mm, tsk_active_mm, alloc_lock, rq_membarrier, countv, histv, trace>>

\* line 28: active_mm = tsk->active_mm
use_mm_read(c) ==
  /\ pc[c] = "u28"
  /\ active_mm' = [active_mm EXCEPT ![c] = tsk_active_mm[c]]
  /\ Goto(c, "u29")
  /\ UNCHANGED <<tsk_mm, tsk_active_mm, alloc_lock, rq_membarrier, countv, histv, trace>>

\* Variants of the test of line 29: the reference is never, or always, taken.
NeedsGrab_never(prev, m) == FALSE

NeedsGrab_always(prev, m) == TRUE

\* line 29: if (active_mm != mm)
NeedsGrab(prev, m) == prev # m

\* Variant of lines 29-31 that stores tsk->active_mm before taking the
\* reference.
use_mm_grab_after_store(c) ==
  /\ pc[c] = "u29"
  /\ IF active_mm[c] # arg[c]
       THEN /\ tsk_active_mm' = [tsk_active_mm EXCEPT ![c] = arg[c]]
            /\ mm_count' = mmgrab(mm_count, arg[c])
            /\ held' = [held EXCEPT ![c][arg[c]] = @ + 1]
            /\ trace' = [trace EXCEPT ![c] =
                           @ \o <<Ev("set_active_mm", arg[c], NULL),
                                  Ev("mmgrab", arg[c], NULL)>>]
            /\ Goto(c, "u33")
       ELSE /\ Goto(c, "u33")
            /\ UNCHANGED <<tsk_active_mm, mm_count, held, trace>>
  /\ UNCHANGED <<tsk_mm, alloc_lock, active_mm, rq_membarrier, freed, owner, histv>>

\* lines 29-30: if (active_mm != mm) mmgrab(mm)
use_mm_grab(c) ==
  /\ pc[c] = "u29"
  /\ IF NeedsGrab(active_mm[c], arg[c])
       THEN /\ mm_count' = mmgrab(mm_count, arg[c])
            /\ held' = [held EXCEPT ![c][arg[c]] = @ + 1]
            /\ Log(c, "mmgrab", arg[c], NULL)
            /\ Goto(c, "u31")
       ELSE /\ Goto(c, "u33")
            /\ UNCHANGED <<mm_count, held, trace>>
  /\ UNCHANGED <<taskv, freed, owner, histv>>

\* line 31: tsk->active_mm = mm
use_mm_set_active(c) ==
  /\ pc[c] = "u31"
  /\ tsk_active_mm' = [tsk_active_mm EXCEPT ![c] = arg[c]]
  /\ Log(c, "set_active_mm", arg[c], NULL)
  /\ Goto(c, "u33")
  /\ UNCHANGED <<tsk_mm, alloc_lock, active_mm, rq_membarrier, countv, histv>>

\* Variant of line 33 that stores the previous space.
use_mm_set_mm_prev(c) ==
  /\ pc[c] = "u33"
  /\ tsk_mm' = [tsk_mm EXCEPT ![c] = active_mm[c]]
  /\ Log(c, "set_mm", active_mm[c], NULL)
  /\ Goto(c, "u34")
  /\ UNCHANGED <<tsk_active_mm, alloc_lock, active_mm, rq_membarrier, countv, histv>>

\* line 33: tsk->mm = mm
use_mm_set_mm(c) ==
  /\ pc[c] = "u33"
  /\ tsk_mm' = [tsk_mm EXCEPT ![c] = arg[c]]
  /\ Log(c, "set_mm", arg[c], NULL)
  /\ Goto(c, "u34")
  /\ UNCHANGED <<tsk_active_mm, alloc_lock, active_mm, rq_membarrier, countv, histv>>

\* line 34: membarrier_update_current_mm(mm)
use_mm_membarrier(c) ==
  /\ pc[c] = "u34"
  /\ rq_membarrier' = [rq_membarrier EXCEPT ![c] = arg[c]]
  /\ Log(c, "membarrier_update", arg[c], NULL)
  /\ Goto(c, "u35")
  /\ UNCHANGED <<tsk_mm, tsk_active_mm, alloc_lock, active_mm, countv, histv>>

\* Variant of line 35 that gives up the previous space before switching.
use_mm_switch_after_drop(c) ==
  /\ pc[c] = "u35"
  /\ IF active_mm[c] \notin {NULL, arg[c]}
       THEN /\ mm_count' = mmdrop(mm_count, active_mm[c])
            /\ freed' = [freed EXCEPT ![active_mm[c]] =
                           @ \/ mmdrop_frees(mm_count, active_mm[c])]
            /\ held' = [held EXCEPT ![c][active_mm[c]] = @ - 1]
            /\ trace' = [trace EXCEPT ![c] =
                           @ \o <<Ev("mmdrop", active_mm[c], NULL),
                                  Ev("switch_mm", active_mm[c], arg[c])>>]
       ELSE /\ Log(c, "switch_mm", active_mm[c], arg[c])
            /\ UNCHANGED <<mm_count, freed, held>>
  /\ Goto(c, "u36")
  /\ UNCHANGED <<taskv, owner, histv>>

\* line 35: switch_mm(active_mm, mm, tsk)
use_mm_switch(c) ==
  /\ pc[c] = "u35"
  /\ Log(c, "switch_mm", active_mm[c], arg[c])
  /\ Goto(c, "u36")
  /\ UNCHANGED <<taskv, countv, histv>>

\* line 36: task_unlock(tsk)
use_mm_unlock(c) ==
  /\ pc[c] = "u36"
  /\ alloc_lock' = [alloc_lock EXCEPT ![c] = FALSE]
  /\ Log(c, "task_unlock", NULL, NULL)
  /\ Goto(c, "u38")
  /\ UNCHANGED <<tsk_mm, tsk_active_mm, active_mm, rq_membarrier, countv, histv>>

\* lines 37-39: finish_arch_post_lock_switch(), where the architecture has one
use_mm_hook(c) ==
  /\ pc[c] = "u38"
  /\ Log(c, "finish_arch_post_lock_switch", NULL, NULL)
  /\ Goto(c, "u50")
  /\ UNCHANGED <<taskv, countv, histv>>

\* Variants of the test of line 50: prev is always, or never, dropped.
NeedsDrop_always(prev, m) == prev # NULL

NeedsDrop_never(prev, m) == FALSE

\* Variant of lines 50-53 without the else branch.
use_mm_drop_no_else(c) ==
  /\ pc[c] = "u50"
  /\ IF active_mm[c] # arg[c] /\ active_mm[c] # NULL
       THEN /\ mm_count' = mmdrop(mm_count, active_mm[c])
            /\ freed' = [freed EXCEPT ![active_mm[c]] =
                           @ \/ mmdrop_frees(mm_count, active_mm[c])]
            /\ held' = [held EXCEPT ![c][active_mm[c]] = @ - 1]
            /\ Log(c, "mmdrop", active_mm[c], NULL)
       ELSE UNCHANGED <<mm_count, freed, held, trace>>
  /\ Goto(c, "idle")
  /\ UNCHANGED <<taskv, owner, histv>>

\* line 50: if (active_mm != mm)
NeedsDrop(prev, m) == prev # m

\* lines 50-53: if (active_mm != mm) mmdrop(active_mm); else smp_mb();
\* mmdrop(NULL) dereferences a null pointer: the thread dies in an oops, or
\* the access lands on memory that is no mm_count and the thread goes on.
use_mm_drop(c) ==
  /\ pc[c] = "u50"
  /\ IF NeedsDrop(active_mm[c], arg[c])
       THEN IF active_mm[c] = NULL
              THEN /\ \E survives \in BOOLEAN :
                        IF survives
                          THEN /\ Log(c, "mmdrop", NULL, NULL)
                               /\ Goto(c, "idle")
                          ELSE /\ Log(c, "mmdrop", NULL, NULL)
                               /\ Goto(c, "oops")
                   /\ UNCHANGED <<mm_count, freed, held>>
              ELSE /\ mm_count' = mmdrop(mm_count, active_mm[c])
                   /\ freed' = [freed EXCEPT ![active_mm[c]] =
                                  @ \/ mmdrop_frees(mm_count, active_mm[c])]
                   /\ held' = [held EXCEPT ![c][active_mm[c]] = @ - 1]
                   /\ Log(c, "mmdrop", active_mm[c], NULL)
                   /\ Goto(c, "idle")
       ELSE /\ Log(c, "smp_mb", NULL, NULL)
            /\ Goto(c, "idle")
            /\ UNCHANGED <<mm_count, freed, held>>
  /\ UNCHANGED <<taskv, owner, histv>>

(***************************************************************************)
(* unuse_mm(mm)                                                            *)
(***************************************************************************)
\* The function checks nothing about mm; the caller passes a live space.
Call_unuse_mm(c, m) ==
  /\ pc[c] = "idle"
  /\ ~freed[m]
  /\ Goto(c, "n69")
  /\ arg' = [arg EXCEPT ![c] = m]
  /\ call' = [call EXCEPT ![c] = "unuse_mm"]
  /\ entry_mm' = [entry_mm EXCEPT ![c] = tsk_mm[c]]
  /\ entry_active' = [entry_active EXCEPT ![c] = tsk_active_mm[c]]
  /\ trace' = [trace EXCEPT ![c] = <<>>]
  /\ pattern' = [pattern EXCEPT ![c] = IF @ = <<1, m>> THEN <<2, m>> ELSE <<0, NULL>>]
  /\ UNCHANGED <<taskv, countv>>

\* line 69: task_lock(tsk)
unuse_mm_lock(c) ==
  /\ pc[c] = "n69"
  /\ ~alloc_lock[c]
  /\ alloc_lock' = [alloc_lock EXCEPT ![c] = TRUE]
  /\ Log(c, "task_lock", NULL, NULL)
  /\ Goto(c, "n77")
  /\ UNCHANGED <<tsk_mm, tsk_active_mm, active_mm, rq_membarrier, countv, histv>>

\* Variant of line 77 that issues no barrier.
unuse_mm_barrier_missing(c) ==
  /\ pc[c] = "n77"
  /\ Goto(c, "n78")
  /\ UNCHANGED <<taskv, countv, histv, trace>>

\* line 77: smp_mb__after_spinlock()
unuse_mm_barrier(c) ==
  /\ pc[c] = "n77"
  /\ Log(c, "smp_mb", NULL, NULL)
  /\ Goto(c, "n78")
  /\ UNCHANGED <<taskv, countv, histv>>

\* Variant of lines 78-79 that clears tsk->mm before the flush.
unuse_mm_sync_rss_after_clear(c) ==
  /\ pc[c] = "n78"
  /\ tsk_mm' = [tsk_mm EXCEPT ![c] = NULL]
  /\ trace' = [trace EXCEPT ![c] =
                 @ \o <<Ev("set_mm", NULL, NULL), Ev("sync_mm_rss", arg[c], NULL)>>]
  /\ Goto(c, "n80")
  /\ UNCHANGED <<tsk_active_mm, alloc_lock, active_mm, rq_membarrier, countv, histv>>

\* Variant of line 78 that flushes into the attached space, not the argument.
unuse_mm_sync_rss_attached(c) ==
  /\ pc[c] = "n78"
  /\ Log(c, "sync_mm_rss", tsk_mm[c], tsk_mm[c])
  /\ Goto(c, "n79")
  /\ UNCHANGED <<taskv, countv, histv>>

\* line 78: sync_mm_rss(mm)
unuse_mm_sync_rss(c) ==
  /\ pc[c] = "n78"
  /\ Log(c, "sync_mm_rss", arg[c], tsk_mm[c])
  /\ Goto(c, "n79")
  /\ UNCHANGED <<taskv, countv, histv>>

\* line 79: tsk->mm = NULL
unuse_mm_clear(c) ==
  /\ pc[c] = "n79"
  /\ tsk_mm' = [tsk_mm EXCEPT ![c] = NULL]
  /\ Log(c, "set_mm", NULL, NULL)
  /\ Goto(c, "n80")
  /\ UNCHANGED <<tsk_active_mm, alloc_lock, active_mm, rq_membarrier, countv, histv>>

\* line 80: membarrier_update_current_mm(NULL)
unuse_mm_membarrier(c) ==
  /\ pc[c] = "n80"
  /\ rq_membarrier' = [rq_membarrier EXCEPT ![c] = NULL]
  /\ Log(c, "membarrier_update", NULL, NULL)
  /\ Goto(c, "n82")
  /\ UNCHANGED <<tsk_mm, tsk_active_mm, alloc_lock, active_mm, countv, histv>>

\* Variant of line 82 that gives up tsk->active_mm on entering the lazy state.
unuse_mm_lazy_forgets(c) ==
  /\ pc[c] = "n82"
  /\ tsk_active_mm' = [tsk_active_mm EXCEPT ![c] = NULL]
  /\ Log(c, "enter_lazy_tlb", arg[c], NULL)
  /\ Goto(c, "n83")
  /\ UNCHANGED <<tsk_mm, alloc_lock, active_mm, rq_membarrier, countv, histv>>

\* line 82: enter_lazy_tlb(mm, tsk)
unuse_mm_lazy(c) ==
  /\ pc[c] = "n82"
  /\ Log(c, "enter_lazy_tlb", arg[c], NULL)
  /\ Goto(c, "n83")
  /\ UNCHANGED <<taskv, countv, histv>>

\* line 83: task_unlock(tsk)
unuse_mm_unlock(c) ==
  /\ pc[c] = "n83"
  /\ alloc_lock' = [alloc_lock EXCEPT ![c] = FALSE]
  /\ Log(c, "task_unlock", NULL, NULL)
  /\ Goto(c, "idle")
  /\ UNCHANGED <<tsk_mm, tsk_active_mm, active_mm, rq_membarrier, countv, histv>>

(***************************************************************************)
(* The callers outside the protocol give up their reference on a space     *)
(* once no call that was passed the space is in progress.                  *)
(***************************************************************************)
OwnerDrop(s) ==
  /\ owner[s]
  /\ InFlight(s) = {}
  /\ owner' = [owner EXCEPT ![s] = FALSE]
  /\ mm_count' = mmdrop(mm_count, s)
  /\ freed' = [freed EXCEPT ![s] = @ \/ mmdrop_frees(mm_count, s)]
  /\ UNCHANGED <<taskv, pc, held, histv, trace>>

Next ==
  \/ \E c \in Contexts, m \in Spaces : Call_use_mm(c, m)
  \/ \E c \in Contexts : use_mm_lock(c)
  \/ \E c \in Contexts : use_mm_read(c)
  \/ \E c \in Contexts : use_mm_grab(c)
  \/ \E c \in Contexts : use_mm_set_active(c)
  \/ \E c \in Contexts : use_mm_set_mm(c)
  \/ \E c \in Contexts : use_mm_membarrier(c)
  \/ \E c \in Contexts : use_mm_switch(c)
  \/ \E c \in Contexts : use_mm_unlock(c)
  \/ \E c \in Contexts : use_mm_hook(c)
  \/ \E c \in Contexts : use_mm_drop(c)
  \/ \E c \in Contexts, m \in Spaces : Call_unuse_mm(c, m)
  \/ \E c \in Contexts : unuse_mm_lock(c)
  \/ \E c \in Contexts : unuse_mm_barrier(c)
  \/ \E c \in Contexts : unuse_mm_sync_rss(c)
  \/ \E c \in Contexts : unuse_mm_clear(c)
  \/ \E c \in Contexts : unuse_mm_membarrier(c)
  \/ \E c \in Contexts : unuse_mm_lazy(c)
  \/ \E c \in Contexts : unuse_mm_unlock(c)
  \/ \E s \in Spaces : OwnerDrop(s)

Spec == Init /\ [][Next]_vars

\* A step of context c inside use_mm or unuse_mm.
Step(c) ==
  \/ use_mm_lock(c) \/ use_mm_read(c) \/ use_mm_grab(c) \/ use_mm_set_active(c)
  \/ use_mm_set_mm(c) \/ use_mm_membarrier(c) \/ use_mm_switch(c)
  \/ use_mm_unlock(c) \/ use_mm_hook(c) \/ use_mm_drop(c)
  \/ unuse_mm_lock(c) \/ unuse_mm_barrier(c) \/ unuse_mm_sync_rss(c)
  \/ unuse_mm_clear(c) \/ unuse_mm_membarrier(c) \/ unuse_mm_lazy(c)
  \/ unuse_mm_unlock(c)

\* Both functions are straight-line, non-sleeping code of a running thread:
\* a context inside a call keeps taking steps.
FairSpec == Spec /\ \A c \in Contexts : WF_vars(Step(c))

TypeOK ==
  /\ tsk_mm \in [Contexts -> SpaceOrNull]
  /\ tsk_active_mm \in [Contexts -> SpaceOrNull]
  /\ alloc_lock \in [Contexts -> BOOLEAN]
  /\ arg \in [Contexts -> SpaceOrNull]
  /\ active_mm \in [Contexts -> SpaceOrNull]
  /\ mm_count \in [Spaces -> Int]
  /\ freed \in [Spaces -> BOOLEAN]
  /\ owner \in [Spaces -> BOOLEAN]
  /\ rq_membarrier \in [Contexts -> SpaceOrNull]
  /\ call \in [Contexts -> {"none", "use_mm", "unuse_mm"}]

(***************************************************************************)
(* Vocabulary of the properties.                                           *)
(***************************************************************************)
Completed(c) == pc[c] = "idle" /\ call[c] # "none"

Grabs(c) == Events(trace[c], "mmgrab")

Drops(c) == Events(trace[c], "mmdrop")

Switches(c) == Events(trace[c], "switch_mm")

\* mmdrop() is a full barrier, as is smp_mb() (comment at lines 41-49).
FullBarriers(c) == SelectSeq(trace[c], LAMBDA r : r.ev \in {"smp_mb", "mmdrop"})

OwnerRefs(s) == IF owner[s] THEN 1 ELSE 0

Quiescent == \A c \in Contexts : pc[c] \in {"idle", "oops"}

\* C1: a space that some context's tsk->mm or tsk->active_mm denotes has
\* mm_count >= 1 and was not destroyed, and no mm_count is ever negative.
C1_DenotedSpaceAlive ==
  /\ \A c \in Contexts :
       \A s \in {tsk_mm[c], tsk_active_mm[c]} \ {NULL} :
         mm_count[s] >= 1 /\ ~freed[s]
  /\ \A s \in Spaces : mm_count[s] >= 0

\* A context is attached to a space whose outside callers are gone, after a
\* use_mm that switched spaces and dropped the previous one.
C1_Witness ==
  \E c \in Contexts :
    /\ Completed(c) /\ call[c] = "use_mm"
    /\ tsk_mm[c] = arg[c] /\ ~owner[arg[c]]
    /\ mm_count[arg[c]] >= 1
    /\ Len(Drops(c)) = 1 /\ Drops(c)[1].a # NULL

\* C2: after each completed call a context holds exactly one reference, on
\* the space tsk->active_mm denotes, or none when tsk->active_mm is absent;
\* the number of references it holds is never negative.
C2_OneReferencePerRetained ==
  \A c \in Contexts :
    /\ \A s \in Spaces : held[c][s] >= 0
    /\ pc[c] = "idle" =>
         \A s \in Spaces : held[c][s] = IF tsk_active_mm[c] = s THEN 1 ELSE 0

\* A context that started with no active_mm completed its first use_mm.
C2_Witness ==
  \E c \in Contexts :
    /\ Completed(c) /\ call[c] = "use_mm"
    /\ entry_active[c] = NULL /\ entry_mm[c] = NULL
    /\ tsk_active_mm[c] = arg[c] /\ held[c][arg[c]] = 1

\* C3: whenever no call is in progress, mm_count of a space, less the
\* reference of the callers outside the protocol, is the number of contexts
\* whose tsk->active_mm is that space.
C3_CountMatchesBorrowers ==
  Quiescent =>
    \A s \in Spaces :
      mm_count[s] - OwnerRefs(s) = Cardinality(Borrowers(tsk_active_mm, s))

\* Every context has completed a call and they all retain the same space.
C3_Witness ==
  /\ Quiescent
  /\ \A c \in Contexts : Completed(c)
  /\ \E s \in Spaces :
       /\ Borrowers(tsk_active_mm, s) = Contexts
       /\ mm_count[s] = NumCtx + OwnerRefs(s)
       /\ \E c \in Contexts : call[c] = "use_mm" /\ Len(Grabs(c)) = 1

\* C4: when use_mm(mm) has completed, tsk->mm and tsk->active_mm are both mm.
C4_AttachSetsBoth ==
  \A c \in Contexts :
    Completed(c) /\ call[c] = "use_mm" =>
      tsk_mm[c] = arg[c] /\ tsk_active_mm[c] = arg[c]

\* A use_mm completed that found the context attached to another space.
C4_Witness ==
  \E c \in Contexts :
    /\ Completed(c) /\ call[c] = "use_mm"
    /\ entry_mm[c] \notin {NULL, arg[c]}
    /\ tsk_mm[c] = arg[c]

C5_DetachState ==
  \A c \in Contexts :
    Completed(c) /\ call[c] = "unuse_mm" /\ entry_mm[c] = arg[c] =>
      /\ tsk_mm[c] = NULL
      /\ tsk_active_mm[c] = arg[c]
      /\ Grabs(c) = <<>> /\ Drops(c) = <<>>
      /\ held[c][arg[c]] = 1

C5_RetainedStep ==
  \A c \in Contexts :
    /\ pc'[c] # pc[c] /\ call'[c] = "unuse_mm" =>
         mm_count' = mm_count /\ freed' = freed /\ held' = held
    /\ tsk_active_mm'[c] # tsk_active_mm[c] =>
         /\ call[c] = "use_mm"
         /\ arg[c] # tsk_active_mm[c]
         /\ tsk_active_mm'[c] = arg[c]

\* C5: when unuse_mm(mm) by a context attached to mm has completed, tsk->mm
\* is NULL, tsk->active_mm is still mm and the call changed no mm_count;
\* tsk->active_mm changes only in a use_mm of a different space.
C5_LazyRetention == []C5_DetachState /\ [][C5_RetainedStep]_vars

\* An unuse_mm by an attached context completed.
C5_Witness ==
  \E c \in Contexts :
    /\ Completed(c) /\ call[c] = "unuse_mm"
    /\ entry_mm[c] = arg[c]
    /\ tsk_mm[c] = NULL /\ tsk_active_mm[c] = arg[c]

\* C6: in use_mm(A), unuse_mm(A), use_mm(A) by one context, the second
\* use_mm takes no reference and drops none, and its switch_mm call has
\* prev = next = A.
C6_LazyReuse ==
  \A c \in Contexts :
    pattern[c][1] = 3 =>
      /\ Grabs(c) = <<>> /\ Drops(c) = <<>>
      /\ held[c][pattern[c][2]] = 1
      /\ \A i \in 1..Len(Switches(c)) :
           Switches(c)[i].a = pattern[c][2] /\ Switches(c)[i].b = pattern[c][2]
      /\ Completed(c) => Len(Switches(c)) = 1

\* The second use_mm(A) of the sequence completed.
C6_Witness ==
  \E c \in Contexts :
    /\ pattern[c][1] = 3 /\ Completed(c)
    /\ call[c] = "use_mm" /\ entry_mm[c] = NULL
    /\ Len(Switches(c)) = 1

\* C7: use_mm(mm) by a context already attached to mm changes no mm_count,
\* leaves tsk->mm and tsk->active_mm equal to mm, and calls switch_mm only
\* with prev = next.
C7_ReattachSame ==
  \A c \in Contexts :
    call[c] = "use_mm" /\ entry_mm[c] = arg[c] =>
      /\ Grabs(c) = <<>> /\ Drops(c) = <<>>
      /\ tsk_mm[c] = arg[c] /\ tsk_active_mm[c] = arg[c]
      /\ held[c][arg[c]] = 1
      /\ \A i \in 1..Len(Switches(c)) : Switches(c)[i].a = Switches(c)[i].b

\* A use_mm(mm) by a context attached to mm completed, switch_mm included.
C7_Witness ==
  \E c \in Contexts :
    /\ Completed(c) /\ call[c] = "use_mm"
    /\ entry_mm[c] = arg[c]
    /\ Len(Switches(c)) = 1

\* C8: use_mm(B) by a context whose tsk->active_mm is A, A # B, drops exactly
\* one reference, on A, takes exactly one, on B, and touches no other count.
C8_SwitchSpaces ==
  \A c \in Contexts :
    Completed(c) /\ call[c] = "use_mm" /\ entry_active[c] \notin {NULL, arg[c]} =>
      /\ Grabs(c) = <<Ev("mmgrab", arg[c], NULL)>>
      /\ Drops(c) = <<Ev("mmdrop", entry_active[c], NULL)>>
      /\ held[c][arg[c]] = 1 /\ held[c][entry_active[c]] = 0

\* use_mm(B) completed for a context lazily detached from A.
C8_Witness ==
  \E c \in Contexts :
    /\ Completed(c) /\ call[c] = "use_mm"
    /\ entry_active[c] \notin {NULL, arg[c]} /\ entry_mm[c] = NULL
    /\ Len(Drops(c)) = 1

\* C9 as stated: in every reachable state, whenever tsk->mm is present,
\* tsk->active_mm denotes the same space and the context holds a counted
\* reference on it.
C9_AttachedIsRetained ==
  \A c \in Contexts :
    tsk_mm[c] # NULL =>
      tsk_active_mm[c] = tsk_mm[c] /\ held[c][tsk_mm[c]] >= 1

\* C9 (amended): in every reachable state, whenever tsk->mm is present the
\* context holds a counted reference on it; tsk->active_mm denotes the same
\* space except between lines 31 and 33 of a use_mm of a different space,
\* where tsk->active_mm is already the new space, also with a reference held.
C9_AttachedIsCounted ==
  \A c \in Contexts :
    tsk_mm[c] # NULL =>
      /\ held[c][tsk_mm[c]] >= 1
      /\ \/ tsk_active_mm[c] = tsk_mm[c]
         \/ /\ pc[c] = "u33" /\ call[c] = "use_mm"
            /\ tsk_active_mm[c] = arg[c]
            /\ held[c][arg[c]] >= 1

\* Between lines 31 and 33: attached is the old space, retained the new one.
C9_Witness ==
  \E c \in Contexts :
    /\ pc[c] = "u33"
    /\ tsk_mm[c] # NULL /\ tsk_active_mm[c] # tsk_mm[c]
    /\ held[c][tsk_mm[c]] = 1

\* C10: a completed use_mm or unuse_mm that changed tsk->mm issued at least
\* one full barrier, smp_mb() or mmdrop(), in that call.
C10_BarrierOnChange ==
  \A c \in Contexts :
    Completed(c) /\ tsk_mm[c] # entry_mm[c] => Len(FullBarriers(c)) >= 1

\* A use_mm re-attached a lazily retained space: no mmdrop, only smp_mb.
C10_Witness ==
  \E c \in Contexts :
    /\ Completed(c) /\ call[c] = "use_mm"
    /\ entry_mm[c] = NULL /\ entry_active[c] = arg[c]
    /\ tsk_mm[c] = arg[c]
    /\ Drops(c) = <<>> /\ Len(FullBarriers(c)) = 1

\* The position of the first event named e in trace t, 0 when there is none.
FirstIdx(t, e) ==
  IF \E i \in 1..Len(t) : t[i].ev = e
    THEN CHOOSE i \in 1..Len(t) : t[i].ev = e /\ \A j \in 1..(i - 1) : t[j].ev # e
    ELSE 0

\* Event e2 occurs in t only after an event e1.
Precedes(t, e1, e2) ==
  FirstIdx(t, e2) # 0 => FirstIdx(t, e1) # 0 /\ FirstIdx(t, e1) < FirstIdx(t, e2)

\* The local active_mm of use_mm has been assigned (line 28 was executed).
PrevRead(c) == call[c] = "use_mm" /\ pc[c] \notin {"u27", "u28"}

\* C11 as stated: in use_mm(mm), prev - compared with mm to decide the grab
\* and the drop, and passed first to switch_mm - is tsk->mm as read at entry.
C11_PrevIsAttached ==
  \A c \in Contexts :
    PrevRead(c) =>
      /\ active_mm[c] = entry_mm[c]
      /\ \A i \in 1..Len(Switches(c)) : Switches(c)[i].a = entry_mm[c]

\* C11 (amended): in use_mm(mm), prev is tsk->active_mm (the retained space)
\* as read at entry under the lock: a reference is taken and prev dropped
\* exactly when it differs from mm, and it is the first argument of switch_mm.
C11_PrevIsRetained ==
  \A c \in Contexts :
    PrevRead(c) =>
      /\ active_mm[c] = entry_active[c]
      /\ \A i \in 1..Len(Switches(c)) : Switches(c)[i].a = entry_active[c]
      /\ pc[c] # "u29" => (Grabs(c) # <<>> <=> entry_active[c] # arg[c])
      /\ pc[c] \in {"idle", "oops"} => (Drops(c) # <<>> <=> entry_active[c] # arg[c])
      /\ \A i \in 1..Len(Drops(c)) : Drops(c)[i].a = entry_active[c]

\* use_mm(A) by a context lazily detached from A: attached is absent,
\* retained is A, and switch_mm was called with prev = A.
C11_Witness ==
  \E c \in Contexts :
    /\ Completed(c) /\ call[c] = "use_mm"
    /\ entry_mm[c] = NULL /\ entry_active[c] = arg[c]
    /\ Switches(c) = <<Ev("switch_mm", arg[c], arg[c])>>
    /\ Grabs(c) = <<>>

\* C12: the first use_mm(mm) of a context whose tsk->mm and tsk->active_mm
\* are both absent takes exactly one reference, on mm, and attempts no
\* release on any space.
C12_FirstAttachNoRelease ==
  \A c \in Contexts :
    call[c] = "use_mm" /\ entry_mm[c] = NULL /\ entry_active[c] = NULL =>
      /\ Drops(c) = <<>>
      /\ pc[c] # "oops"
      /\ pc[c] = "idle" => Grabs(c) = <<Ev("mmgrab", arg[c], NULL)>>

\* C13: in a use_mm(mm) that changes spaces, mmgrab(mm) comes strictly before
\* the stores of mm to tsk->active_mm and tsk->mm, so whenever a field of a
\* context denotes a space the context's reference on it is already counted.
C13_GrabBeforeStore ==
  \A c \in Contexts :
    /\ \A s \in Spaces :
         tsk_mm[c] = s \/ tsk_active_mm[c] = s => held[c][s] >= 1 /\ mm_count[s] >= 1
    /\ call[c] = "use_mm" /\ entry_active[c] # arg[c] =>
         /\ Precedes(trace[c], "mmgrab", "set_active_mm")
         /\ Precedes(trace[c], "mmgrab", "set_mm")
         /\ pc[c] = "u31" =>
              /\ Grabs(c) = <<Ev("mmgrab", arg[c], NULL)>>
              /\ tsk_active_mm[c] # arg[c] /\ tsk_mm[c] # arg[c]

\* Between lines 30 and 31: the reference on mm is counted and neither
\* field denotes mm yet.
C13_Witness ==
  \E c \in Contexts :
    /\ call[c] = "use_mm" /\ pc[c] = "u31"
    /\ entry_active[c] \notin {NULL, arg[c]}
    /\ held[c][arg[c]] = 1
    /\ tsk_active_mm[c] = entry_active[c]

\* The step that closes use_mm: mmdrop(prev) when prev differs from mm,
\* smp_mb() when it does not.
ClosingStep(c) ==
  IF active_mm[c] # arg[c]
    THEN Ev("mmdrop", active_mm[c], NULL)
    ELSE Ev("smp_mb", NULL, NULL)

\* C14: every use_mm(mm) performs exactly one of mmdrop(prev) and smp_mb(),
\* the mmdrop when prev differs from mm and the smp_mb when it is mm, and
\* performs it last: after tsk->mm = mm was stored and published to
\* membarrier, after switch_mm and after task_unlock.
C14_OneClosingBarrier ==
  \A c \in Contexts :
    call[c] = "use_mm" =>
      /\ pc[c] \notin {"idle", "oops"} => FullBarriers(c) = <<>>
      /\ pc[c] = "u50" =>
           /\ tsk_mm[c] = arg[c] /\ rq_membarrier[c] = arg[c]
           /\ ~alloc_lock[c]
           /\ Precedes(trace[c], "set_mm", "membarrier_update")
           /\ Precedes(trace[c], "membarrier_update", "switch_mm")
           /\ Precedes(trace[c], "switch_mm", "task_unlock")
           /\ FirstIdx(trace[c], "task_unlock") # 0
      /\ pc[c] \in {"idle", "oops"} =>
           /\ FullBarriers(c) = <<ClosingStep(c)>>
           /\ trace[c][Len(trace[c])] = ClosingStep(c)
           /\ tsk_mm[c] = arg[c] /\ rq_membarrier[c] = arg[c] /\ ~alloc_lock[c]

\* A use_mm that changed spaces completed: its last event is the mmdrop of
\* the previous space.
C14_Witness ==
  \E c \in Contexts :
    /\ Completed(c) /\ call[c] = "use_mm"
    /\ entry_active[c] \notin {NULL, arg[c]}
    /\ trace[c][Len(trace[c])] = Ev("mmdrop", entry_active[c], NULL)
    /\ FirstIdx(trace[c], "task_unlock") = Len(trace[c]) - 2

\* C15: in every unuse_mm the full barrier of line 77 is issued after
\* task_lock and strictly before both sync_mm_rss and the store tsk->mm =
\* NULL, so tsk->mm reads absent because of this call only after the barrier.
C15_BarrierBeforeClear ==
  \A c \in Contexts :
    call[c] = "unuse_mm" =>
      /\ Precedes(trace[c], "task_lock", "smp_mb")
      /\ Precedes(trace[c], "smp_mb", "sync_mm_rss")
      /\ Precedes(trace[c], "smp_mb", "set_mm")
      /\ pc[c] = "n77" =>
           alloc_lock[c] /\ tsk_mm[c] = entry_mm[c] /\ Events(trace[c], "smp_mb") = <<>>
      /\ pc[c] \notin {"n69", "n77"} => Len(Events(trace[c], "smp_mb")) = 1
      /\ tsk_mm[c] # entry_mm[c] => FirstIdx(trace[c], "smp_mb") # 0

\* An unuse_mm has cleared tsk->mm of an attached context, barrier issued.
C15_Witness ==
  \E c \in Contexts :
    /\ call[c] = "unuse_mm" /\ pc[c] = "n80"
    /\ entry_mm[c] # NULL /\ tsk_mm[c] = NULL
    /\ FirstIdx(trace[c], "smp_mb") = 2

\* C16: in unuse_mm(mm) by a context attached to mm, sync_mm_rss(mm) runs
\* while tsk->mm is still mm; the flush precedes the store tsk->mm = NULL,
\* which precedes membarrier_update_current_mm(NULL), which precedes
\* enter_lazy_tlb.
C16_FlushWhileAttached ==
  \A c \in Contexts :
    call[c] = "unuse_mm" /\ entry_mm[c] = arg[c] =>
      /\ \A i \in 1..Len(Events(trace[c], "sync_mm_rss")) :
           Events(trace[c], "sync_mm_rss")[i] = Ev("sync_mm_rss", arg[c], arg[c])
      /\ Precedes(trace[c], "sync_mm_rss", "set_mm")
      /\ Precedes(trace[c], "set_mm", "membarrier_update")
      /\ Precedes(trace[c], "membarrier_update", "enter_lazy_tlb")
      /\ pc[c] = "n79" => tsk_mm[c] = arg[c] /\ FirstIdx(trace[c], "sync_mm_rss") # 0
      /\ pc[c] = "n80" => tsk_mm[c] = NULL /\ rq_membarrier[c] = arg[c]
      /\ pc[c] = "n82" => tsk_mm[c] = NULL /\ rq_membarrier[c] = NULL
      /\ Completed(c) =>
           /\ Len(Events(trace[c], "sync_mm_rss")) = 1
           /\ Len(Events(trace[c], "enter_lazy_tlb")) = 1
           /\ rq_membarrier[c] = NULL

\* An unuse_mm by an attached context completed, with its flush into mm.
C16_Witness ==
  \E c \in Contexts :
    /\ Completed(c) /\ call[c] = "unuse_mm" /\ entry_mm[c] = arg[c]
    /\ Events(trace[c], "sync_mm_rss") = <<Ev("sync_mm_rss", arg[c], arg[c])>>
    /\ Events(trace[c], "enter_lazy_tlb") = <<Ev("enter_lazy_tlb", arg[c], NULL)>>

\* The stores and calls that use_mm and unuse_mm make under task_lock.
LockedEvents ==
  {"set_active_mm", "set_mm", "membarrier_update", "switch_mm",
   "sync_mm_rss", "enter_lazy_tlb"}

C17_LockedStep ==
  \A c \in Contexts :
    /\ \/ tsk_mm'[c] # tsk_mm[c]
       \/ tsk_active_mm'[c] # tsk_active_mm[c]
       \/ rq_membarrier'[c] # rq_membarrier[c]
       => alloc_lock[c] /\ alloc_lock'[c]
    /\ Len(trace'[c]) > Len(trace[c]) =>
         /\ trace'[c][Len(trace'[c])].ev \in LockedEvents =>
              alloc_lock[c] /\ alloc_lock'[c]
         /\ trace'[c][Len(trace'[c])].ev = "finish_arch_post_lock_switch" =>
              /\ ~alloc_lock[c] /\ ~alloc_lock'[c]
              /\ Precedes(trace'[c], "task_unlock", "finish_arch_post_lock_switch")

\* C17: every store to tsk->mm and tsk->active_mm and every call of
\* membarrier_update_current_mm, switch_mm, sync_mm_rss and enter_lazy_tlb
\* is a step taken with the context's own task_lock held; the post-switch
\* hook of use_mm runs only after task_unlock.
C17_UnderLock == [][C17_LockedStep]_vars

\* use_mm has run the post-switch hook: the stores and switch_mm are done
\* and the lock is released.
C17_Witness ==
  \E c \in Contexts :
    /\ call[c] = "use_mm" /\ pc[c] = "u50" /\ ~alloc_lock[c]
    /\ FirstIdx(trace[c], "set_mm") # 0
    /\ FirstIdx(trace[c], "switch_mm") # 0
    /\ trace[c][Len(trace[c])].ev = "finish_arch_post_lock_switch"

\* C18: under weak fairness every started use_mm or unuse_mm eventually
\* completes with the context's lock released, and a context about to take
\* its lock never finds it held.
C18_EveryCallCompletes ==
  /\ [](\A c \in Contexts : pc[c] \in {"u27", "n69"} => ~alloc_lock[c])
  /\ \A c \in Contexts :
       (pc[c] # "idle") ~> (pc[c] = "idle" /\ ~alloc_lock[c])

\* C19: when use_mm calls switch_mm(prev, mm), the context holds a counted
\* reference on mm and still holds the one on prev (when prev is present),
\* so neither space is destroyed; prev is dropped only after switch_mm.
C19_SwitchHoldsBoth ==
  \A c \in Contexts :
    call[c] = "use_mm" =>
      /\ pc[c] \in {"u35", "u36"} =>
           /\ held[c][arg[c]] >= 1 /\ mm_count[arg[c]] >= 1 /\ ~freed[arg[c]]
           /\ active_mm[c] # NULL =>
                /\ held[c][active_mm[c]] >= 1
                /\ mm_count[active_mm[c]] >= 1
                /\ ~freed[active_mm[c]]
           /\ active_mm[c] \notin {NULL, arg[c]} =>
                mm_count[active_mm[c]] >= 1 + OwnerRefs(active_mm[c])
      /\ \A i \in 1..Len(Switches(c)) :
           Switches(c)[i] = Ev("switch_mm", active_mm[c], arg[c])
      /\ Precedes(trace[c], "switch_mm", "mmdrop")

\* switch_mm(A, B) has just been called with A # B, A kept alive by this
\* context's reference alone.
C19_Witness ==
  \E c \in Contexts :
    /\ call[c] = "use_mm" /\ pc[c] = "u36"
    /\ active_mm[c] \notin {NULL, arg[c]}
    /\ ~owner[active_mm[c]] /\ mm_count[active_mm[c]] = 1
    /\ Switches(c) = <<Ev("switch_mm", active_mm[c], arg[c])>>

\* The names of the events of a trace, in order.
EventNames(t) == [i \in 1..Len(t) |-> t[i].ev]

\* C20: unuse_mm(mm) called when tsk->mm is not mm (absent or another space)
\* raises no error: it still flushes into the mm it was passed, sets tsk->mm
\* to NULL, and leaves tsk->active_mm and every mm_count as they were.
C20_DetachUnvalidated ==
  \A c \in Contexts :
    call[c] = "unuse_mm" /\ entry_mm[c] # arg[c] =>
      /\ pc[c] # "oops"
      /\ tsk_active_mm[c] = entry_active[c]
      /\ Grabs(c) = <<>> /\ Drops(c) = <<>>
      /\ \A s \in Spaces : held[c][s] = IF entry_active[c] = s THEN 1 ELSE 0
      /\ \A i \in 1..Len(Events(trace[c], "sync_mm_rss")) :
           Events(trace[c], "sync_mm_rss")[i] = Ev("sync_mm_rss", arg[c], entry_mm[c])
      /\ Completed(c) =>
           /\ tsk_mm[c] = NULL /\ rq_membarrier[c] = NULL /\ ~alloc_lock[c]
           /\ EventNames(trace[c]) =
                <<"task_lock", "smp_mb", "sync_mm_rss", "set_mm",
                  "membarrier_update", "enter_lazy_tlb", "task_unlock">>

\* unuse_mm(B) completed for a context that was attached to A # B.
C20_Witness ==
  \E c \in Contexts :
    /\ Completed(c) /\ call[c] = "unuse_mm"
    /\ entry_mm[c] \notin {NULL, arg[c]}
    /\ tsk_mm[c] = NULL /\ tsk_active_mm[c] = entry_mm[c]
    /\ Events(trace[c], "sync_mm_rss") = <<Ev("sync_mm_rss", arg[c], entry_mm[c])>>

====
